---- MODULE Spec2Model ----
(***************************************************************************)
(* A model of src/app.py: the rule-compliance evaluation pipeline of the   *)
(* "AI Text Rule Compliance Checker".                                      *)
(*                                                                         *)
(*   - parse_result (app.py 102-141) is a pure function on strings.  It is *)
(*     modelled as the operator parse_result over TLA+ strings, computed   *)
(*     character by character the way the Python code computes it (strip,  *)
(*     split, upper, startswith, `in`).  ParseSpec draws a reply from a    *)
(*     bounded set of replies and applies parse_result to it.              *)
(*   - analyze_rule_compliance (app.py 52-90), the Streamlit handlers      *)
(*     (app.py 147-231) and load_api_key (app.py 9-32) are modelled as the *)
(*     state machine Spec.  A backend call is two steps (the call is       *)
(*     issued; it returns or raises), everything else a handler does is    *)
(*     one step.                                                           *)
(***************************************************************************)
EXTENDS Integers, Sequences, FiniteSets, TLC

VARIABLES
    raw,            \* ParseSpec: the reply handed to parse_result
    parses,         \* ParseSpec: the Verdicts parse_result returned for raw, in call order
    rules_context,  \* st.session_state.rules_context: a list of rule strings
    pc,             \* where the script is: "idle", "analyze", "loop", "calling", "done", "shown"
    caller,         \* who invoked the workflow: "ui" (Review Text) or "direct" (workflow.invoke)
    state,          \* the ReviewState being worked on: text, rules, results, analysis_complete
    api_key,        \* analyze_rule_compliance's local api_key
    idx,            \* the loop index i of `for i, rule in enumerate(rules)`
    calls,          \* the backend calls issued by the current run, in order, with their outcomes
    shown           \* what the running script has rendered below the buttons

vars == <<raw, parses, rules_context, pc, caller, state, api_key, idx, calls, shown>>

parseVars == <<raw, parses>>
sessionVars == <<rules_context, pc, caller, state, api_key, idx, calls, shown>>

----------------------------------------------------------------------------
(* Bounds of the model.                                                    *)

\* the largest number of lines of a reply handed to parse_result
MaxLines == 2
\* how often the same reply is parsed
MaxParses == 2
\* the largest rule list handed directly to the workflow
MaxRules == 3
\* the largest number of lines typed into the "new rules" text area
MaxNewLines == 1

----------------------------------------------------------------------------
(* Python str operations, on TLA+ strings.                                 *)

\* Python's None
None == "<None>"

Char(s, k) == SubSeq(s, k, k)

LowerLetters == "abcdefghijklmnopqrstuvwxyz"
UpperLetters == "ABCDEFGHIJKLMNOPQRSTUVWXYZ"

UpperTable ==
    [c \in {Char(LowerLetters, k) : k \in 1..26} |->
        Char(UpperLetters, CHOOSE k \in 1..26 : Char(LowerLetters, k) = c)]

\* str.upper(), one character
UpperChar(c) == IF c \in DOMAIN UpperTable THEN UpperTable[c] ELSE c

RECURSIVE Upper(_)
\* str.upper()
Upper(s) == IF s = "" THEN "" ELSE UpperChar(Char(s, 1)) \o Upper(Tail(s))

\* the characters str.strip() removes (those that occur in the model's inputs)
IsSpace(c) == c \in {" ", "\t", "\n", "\r"}

RECURSIVE LStrip(_)
LStrip(s) == IF s # "" /\ IsSpace(Char(s, 1)) THEN LStrip(Tail(s)) ELSE s

RECURSIVE RStrip(_)
RStrip(s) ==
    IF s # "" /\ IsSpace(Char(s, Len(s))) THEN RStrip(SubSeq(s, 1, Len(s) - 1)) ELSE s

\* str.strip()
Strip(s) == RStrip(LStrip(s))

\* s.startswith(prefix)
StartsWith(s, prefix) ==
    Len(s) >= Len(prefix) /\ SubSeq(s, 1, Len(prefix)) = prefix

\* `sub in s`
Contains(s, sub) ==
    \E k \in 1..(Len(s) - Len(sub) + 1) : SubSeq(s, k, k + Len(sub) - 1) = sub

\* s.find(c) for a single character c, 1-based; 0 when c does not occur
Find(s, c) ==
    IF \E k \in 1..Len(s) : Char(s, k) = c
    THEN CHOOSE k \in 1..Len(s) : Char(s, k) = c /\ \A j \in 1..(k - 1) : Char(s, j) # c
    ELSE 0

RECURSIVE Split(_, _)
\* s.split(sep) for a single character sep: a sequence of strings, never empty
Split(s, sep) ==
    LET k == Find(s, sep)
    IN  IF k = 0 THEN <<s>>
        ELSE <<SubSeq(s, 1, k - 1)>> \o Split(SubSeq(s, k + 1, Len(s)), sep)

\* s.split(sep, 1)[-1]: what follows the first sep, the whole of s when there is none
AfterFirst(s, sep) ==
    LET k == Find(s, sep)
    IN  IF k = 0 THEN s ELSE SubSeq(s, k + 1, Len(s))

\* s.split(sep, 1)[1], defined when sep occurs in s
SecondOfSplit(s, sep) == SubSeq(s, Find(s, sep) + 1, Len(s))

RECURSIVE Join(_, _)
\* sep.join(parts)
Join(parts, sep) ==
    IF parts = <<>> THEN ""
    ELSE IF Len(parts) = 1 THEN parts[1]
    ELSE parts[1] \o sep \o Join(Tail(parts), sep)

----------------------------------------------------------------------------
(* parse_result, app.py 102-141.                                           *)

StatusValues == {"MET", "NOT_MET", "NOT_FOUND", "ERROR"}

\* the initial value of `content`, app.py 106
UnableToParse == "Unable to parse result"

\* app.py 114: the (stripped) line starts with a STATUS marker
IsStatusLine(line) ==
    \E prefix \in {"STATUS:", "STATUS ", "**STATUS"} : StartsWith(Upper(line), prefix)

\* app.py 124: the (stripped) line starts with a CONTENT marker
IsContentLine(line) ==
    \E prefix \in {"CONTENT:", "CONTENT ", "**CONTENT"} : StartsWith(Upper(line), prefix)

\* app.py 116-122 taking the status to be the text after the colon
StatusOfLine_ValueText(line, status) == Upper(Strip(AfterFirst(line, ":")))

\* app.py 117-122 with MET tested first
StatusOfLine_MetFirst(line, status) ==
    LET line_upper == Upper(line)
    IN  IF Contains(line_upper, "MET") THEN "MET"
        ELSE IF Contains(line_upper, "NOT_MET") THEN "NOT_MET"
        ELSE IF Contains(line_upper, "NOT_FOUND") THEN "NOT_FOUND"
        ELSE status

\* app.py 116-122: the status after a STATUS-marked line, given the status before it
StatusOfLine(line, status) ==
    LET line_upper == Upper(line)
    IN  IF Contains(line_upper, "NOT_MET") THEN "NOT_MET"
        ELSE IF Contains(line_upper, "NOT_FOUND") THEN "NOT_FOUND"
        ELSE IF Contains(line_upper, "MET") THEN "MET"
        ELSE status

\* app.py 125: the content a CONTENT-marked line gives
ContentOfLine(line) == Strip(AfterFirst(line, ":"))

\* app.py 112-125: one iteration of `for line in lines`, on acc = (status, content)
ScanLine(acc, rawline) ==
    LET line == Strip(rawline)
    IN  IF IsStatusLine(line)
        THEN [acc EXCEPT !.status = StatusOfLine(line, acc.status)]
        ELSE IF IsContentLine(line)
        THEN [acc EXCEPT !.content = ContentOfLine(line)]
        ELSE acc

RECURSIVE ScanLines(_, _)
\* app.py 111-125: the whole loop
ScanLines(acc, lines) ==
    IF lines = <<>> THEN acc ELSE ScanLines(ScanLine(acc, Head(lines)), Tail(lines))

\* app.py 128-135: the status after the whole-text search
WholeTextStatus(result, status) ==
    IF status = "ERROR"
    THEN LET result_upper == Upper(result)
         IN  IF Contains(result_upper, "NOT_MET") THEN "NOT_MET"
             ELSE IF Contains(result_upper, "NOT_FOUND") THEN "NOT_FOUND"
             ELSE IF Contains(result_upper, "MET") THEN "MET"
             ELSE status
    ELSE status

\* app.py 138-139 without the fallback to the whole reply
WholeTextContent_Keep(result, content) == content

\* app.py 138-139: the content after the fallback to the whole reply
WholeTextContent(result, content) ==
    IF content = UnableToParse THEN result ELSE content

\* app.py 102-141
parse_result(reply) ==
    LET result == Strip(reply)
        lines == Split(result, "\n")
        scanned == ScanLines([status |-> "ERROR", content |-> UnableToParse], lines)
    IN  [status |-> WholeTextStatus(result, scanned.status),
         content |-> WholeTextContent(result, scanned.content)]

----------------------------------------------------------------------------
(* load_api_key, app.py 9-32.                                              *)

\* Python's `not v` for v a string or None
Falsy(v) == v = None \/ v = ""

\* what os.getenv('GOOGLE_API_KEY') may return
EnvValues == {None, "", "k"}

\* what the file .env may be: missing, unreadable, or some lines
DotEnvFiles ==
    { [exists |-> FALSE, readable |-> FALSE, lines |-> <<>>],
      [exists |-> TRUE, readable |-> FALSE, lines |-> <<>>],
      [exists |-> TRUE, readable |-> TRUE, lines |-> <<"# no key here">>],
      [exists |-> TRUE, readable |-> TRUE, lines |-> <<"GOOGLE_API_KEY=">>],
      [exists |-> TRUE, readable |-> TRUE, lines |-> <<"DEBUG=1", " GOOGLE_API_KEY=k ">>] }

RECURSIVE KeyInLines(_, _)
\* app.py 20-23: the value of the first GOOGLE_API_KEY= line, api_key when there is none
KeyInLines(lines, key) ==
    IF lines = <<>> THEN key
    ELSE IF StartsWith(Strip(Head(lines)), "GOOGLE_API_KEY=")
    THEN SecondOfSplit(Strip(Head(lines)), "=")
    ELSE KeyInLines(Tail(lines), key)

\* app.py 9-32
load_api_key(env, dotenv) ==
    IF ~Falsy(env) THEN env
    ELSE IF dotenv.exists /\ ~dotenv.readable THEN None
    ELSE LET key == IF dotenv.exists THEN KeyInLines(dotenv.lines, env) ELSE env
         IN  IF Falsy(key) THEN None ELSE key

----------------------------------------------------------------------------
(* The session: the Streamlit script (app.py 147-231) and the workflow     *)
(* node analyze_rule_compliance (app.py 52-90).                            *)

\* the lines the user may type into the "new rules" text area
NewRuleLines == {"a", "b", " a ", ""}

RECURSIVE NewRuleTexts(_)
\* the texts of exactly n lines
NewRuleTexts(n) ==
    IF n = 0 THEN {""}
    ELSE IF n = 1 THEN NewRuleLines
    ELSE {l \o "\n" \o rest : l \in NewRuleLines, rest \in NewRuleTexts(n - 1)}

\* the values of the "new rules" text area
NewRulesInputs == UNION {NewRuleTexts(n) : n \in 0..MaxNewLines}

\* the values of the "text to review" text area
TextInputs == {"", " ", "draft"}

\* the rules a direct caller may hand over
RuleUniverse == {"a", "b"}

\* the rule lists a direct caller may hand over
RuleLists == UNION {[1..n -> RuleUniverse] : n \in 0..MaxRules}

\* what the backend may answer (response.content, app.py 82)
BackendReplies ==
    { "STATUS: MET",
      "STATUS: NOT_MET\nCONTENT: paragraph 3 is off-topic" }

\* what the backend may raise (str(e), app.py 84)
FailureDescriptions ==
    { "504 Deadline Exceeded",
      "429 Quota exceeded for quota metric" }

\* the elements of a list
Elements(list) == {list[k] : k \in DOMAIN list}

\* list(set(items)): the elements without repetition, in any order
ListsOfSet(items) ==
    {p \in [1..Cardinality(items) -> items] :
        \A j, k \in DOMAIN p : j # k => p[j] # p[k]}

RECURSIVE StripNonEmpty(_)
\* app.py 179: [rule.strip() for rule in parts if rule.strip()]
StripNonEmpty(parts) ==
    IF parts = <<>> THEN <<>>
    ELSE IF Strip(Head(parts)) # ""
    THEN <<Strip(Head(parts))>> \o StripNonEmpty(Tail(parts))
    ELSE StripNonEmpty(Tail(parts))

\* app.py 175-180: the rules of this submission
AllRules(context, new_rules) ==
    IF Strip(new_rules) # ""
    THEN context \o StripNonEmpty(Split(Strip(new_rules), "\n"))
    ELSE context

\* f"rule_{i}" where i + 1 is meant
ResultKey_Shifted(i) == "rule_" \o ToString(i)

\* app.py 82, 84, 209: f"rule_{i+1}"
ResultKey(i) == "rule_" \o ToString(i + 1)

\* dict assignment d[key] = value
DictSet(d, key, value) ==
    [k \in DOMAIN d \cup {key} |-> IF k = key THEN value ELSE d[k]]

\* app.py 56: the results of the run without a key
NoKeyResults == [k \in {"error"} |-> "API key not available"]

\* the script passes app.py 148-150 (st.stop() otherwise)
ScriptPassesKeyCheck ==
    \E env \in EnvValues, dotenv \in DotEnvFiles : ~Falsy(load_api_key(env, dotenv))

\* app.py 168-170: the button "Clear Rules Context"
ClearRulesContext ==
    /\ pc = "idle"
    /\ ScriptPassesKeyCheck
    /\ rules_context' = <<>>
    /\ UNCHANGED <<parseVars, pc, caller, state, api_key, idx, calls, shown>>

\* app.py 173-198: the button "Review Text", up to workflow.invoke
ReviewText ==
    /\ pc = "idle"
    /\ ScriptPassesKeyCheck
    /\ \E new_rules \in NewRulesInputs, text_input \in TextInputs :
        LET all_rules == AllRules(rules_context, new_rules)
        IN  /\ IF Strip(new_rules) # ""
               THEN rules_context' \in ListsOfSet(Elements(all_rules))
               ELSE UNCHANGED rules_context
            /\ IF all_rules = <<>>
               THEN /\ shown' = <<[rule |-> "", status |-> "", content |-> "",
                                   widget |-> "Please enter at least one rule"]>>
                    /\ pc' = "shown"
                    /\ UNCHANGED <<caller, state, api_key, idx, calls>>
               ELSE IF Strip(text_input) = ""
               THEN /\ shown' = <<[rule |-> "", status |-> "", content |-> "",
                                   widget |-> "Please enter text to review"]>>
                    /\ pc' = "shown"
                    /\ UNCHANGED <<caller, state, api_key, idx, calls>>
               ELSE /\ state' = [text |-> text_input, rules |-> all_rules,
                                 results |-> <<>>, analysis_complete |-> FALSE]
                    /\ pc' = "analyze"
                    /\ caller' = "ui"
                    /\ UNCHANGED <<api_key, idx, calls, shown>>
    /\ UNCHANGED parseVars

\* the compiled workflow (app.py 92-100) invoked on a ReviewState by any other
\* caller; the workflow never reads the session, so the call is taken from the
\* session as it starts
InvokeWorkflow ==
    /\ pc = "idle"
    /\ rules_context = <<>>
    /\ \E text \in TextInputs, rules \in RuleLists :
        state' = [text |-> text, rules |-> rules,
                  results |-> <<>>, analysis_complete |-> FALSE]
    /\ pc' = "analyze"
    /\ caller' = "direct"
    /\ UNCHANGED <<parseVars, rules_context, api_key, idx, calls, shown>>

\* app.py 54-62 with the check of the key left out
AnalyzeEntry_NoKeyCheck ==
    /\ pc = "analyze"
    /\ \E env \in EnvValues, dotenv \in DotEnvFiles :
        api_key' = load_api_key(env, dotenv)
    /\ state' = [state EXCEPT !.results = <<>>]
    /\ idx' = 0
    /\ pc' = "loop"
    /\ UNCHANGED <<parseVars, rules_context, caller, calls, shown>>

\* app.py 54-62: analyze_rule_compliance up to the loop
AnalyzeEntry ==
    /\ pc = "analyze"
    /\ \E env \in EnvValues, dotenv \in DotEnvFiles :
        LET key == load_api_key(env, dotenv)
        IN  /\ api_key' = key
            /\ IF Falsy(key)
               THEN /\ state' = [state EXCEPT !.results = NoKeyResults,
                                              !.analysis_complete = TRUE]
                    /\ pc' = "done"
                    /\ UNCHANGED idx
               ELSE /\ state' = [state EXCEPT !.results = <<>>]
                    /\ idx' = 0
                    /\ pc' = "loop"
    /\ UNCHANGED <<parseVars, rules_context, caller, calls, shown>>

\* app.py 64-81: the next rule's prompt is built and llm.invoke is called
InvokeBackend ==
    /\ pc = "loop"
    /\ idx < Len(state.rules)
    /\ calls' = Append(calls, [index |-> idx, rule |-> state.rules[idx + 1],
                               text |-> state.text, outcome |-> "pending", reply |-> ""])
    /\ pc' = "calling"
    /\ UNCHANGED <<parseVars, rules_context, caller, state, api_key, idx, shown>>

\* the call in flight ends with `outcome`, and the loop stores `reply` for it
EndCall(outcome, reply, stored) ==
    /\ calls' = [calls EXCEPT ![Len(calls)].outcome = outcome, ![Len(calls)].reply = reply]
    /\ state' = [state EXCEPT !.results = DictSet(state.results, ResultKey(idx), stored)]
    /\ idx' = idx + 1
    /\ pc' = "loop"
    /\ UNCHANGED <<parseVars, rules_context, caller, api_key, shown>>

\* app.py 81-82: llm.invoke returns
BackendRespond ==
    /\ pc = "calling"
    /\ \E reply \in BackendReplies : EndCall("returned", reply, reply)

\* app.py 83-84 without the try: the exception leaves the loop
BackendFail_Propagates ==
    /\ pc = "calling"
    /\ \E e \in FailureDescriptions :
        calls' = [calls EXCEPT ![Len(calls)].outcome = "raised", ![Len(calls)].reply = e]
    /\ pc' = "done"
    /\ UNCHANGED <<parseVars, rules_context, caller, state, api_key, idx, shown>>

\* app.py 83-84: llm.invoke raises
BackendFail ==
    /\ pc = "calling"
    /\ \E e \in FailureDescriptions : EndCall("raised", e, "ERROR: " \o e)

\* app.py 86-90: the loop is over
Finish ==
    /\ pc = "loop"
    /\ idx = Len(state.rules)
    /\ state' = [state EXCEPT !.analysis_complete = TRUE]
    /\ pc' = "done"
    /\ UNCHANGED <<parseVars, rules_context, caller, api_key, idx, calls, shown>>

\* app.py 215-224: the widget a status is rendered with
Widget(status) ==
    IF status = "MET" THEN "success"
    ELSE IF status = "NOT_MET" THEN "error: violating content"
    ELSE IF status = "NOT_FOUND" THEN "warning: suggested content"
    ELSE "error"

\* app.py 207-226: what is rendered for rule i (0-based)
ShownFor(rules, results, i) ==
    IF ResultKey(i) \in DOMAIN results
    THEN LET parsed == parse_result(results[ResultKey(i)])
         IN  [rule |-> rules[i + 1], status |-> parsed.status,
              content |-> parsed.content, widget |-> Widget(parsed.status)]
    ELSE [rule |-> rules[i + 1], status |-> "", content |-> "",
          widget |-> "No result available for this rule"]

\* app.py 203-228: the results of workflow.invoke are rendered
Display ==
    /\ pc = "done"
    /\ caller = "ui"
    /\ shown' = [k \in 1..Len(state.rules) |-> ShownFor(state.rules, state.results, k - 1)]
    /\ pc' = "shown"
    /\ UNCHANGED <<parseVars, rules_context, caller, state, api_key, idx, calls>>

\* the run is over and its local variables are gone; the session state stays
RunEnds ==
    /\ pc' = "idle"
    /\ caller' = "ui"
    /\ state' = [text |-> "", rules |-> <<>>, results |-> <<>>, analysis_complete |-> FALSE]
    /\ api_key' = None
    /\ idx' = 0
    /\ calls' = <<>>
    /\ shown' = <<>>
    /\ UNCHANGED <<parseVars, rules_context>>

\* the script has reached its last line (app.py 259)
ScriptEnds ==
    /\ pc = "shown"
    /\ RunEnds

\* workflow.invoke returns to its other caller
Return ==
    /\ pc = "done"
    /\ caller = "direct"
    /\ RunEnds

----------------------------------------------------------------------------
(* ParseSpec: parse_result applied to a bounded set of replies.            *)

\* the lines replies are built from: the reply shape the prompt asks for
\* (app.py 75-77), its marker variants, and text without markers
ReplyLines ==
    { "STATUS: MET",
      "STATUS: NOT_FOUND",
      "status: not_met",
      "STATUS: [MET/NOT_MET/NOT_FOUND]",
      "**STATUS**: MET",
      "STATUS MET",
      "STATUS: unclear",
      "STATUSMET",
      "CONTENT: paragraph 3 is off-topic",
      "CONTENT:",
      "CONTENT: Unable to parse result",
      "**CONTENT**: add a: summary",
      "CONTENT see below",
      "content: something is missing",
      "  This text looks fine overall. ",
      "the requirement is not_met",
      "",
      "ERROR: timeout" }

RECURSIVE LineSeqs(_)
\* the sequences of exactly n reply lines
LineSeqs(n) ==
    IF n = 0 THEN {<<>>}
    ELSE {<<l>> \o rest : l \in ReplyLines, rest \in LineSeqs(n - 1)}

\* the replies of at most MaxLines lines
Replies == {Join(ls, "\n") : ls \in UNION {LineSeqs(n) : n \in 1..MaxLines}}

\* the session before anything was submitted (app.py 35-36)
SessionIdle ==
    /\ rules_context = <<>>
    /\ pc = "idle"
    /\ caller = "ui"
    /\ state = [text |-> "", rules |-> <<>>, results |-> <<>>, analysis_complete |-> FALSE]
    /\ api_key = None
    /\ idx = 0
    /\ calls = <<>>
    /\ shown = <<>>

ParseInit ==
    /\ raw \in Replies
    /\ parses = <<>>
    /\ SessionIdle

\* one call parse_result(raw), app.py 211
ParseReply ==
    /\ Len(parses) < MaxParses
    /\ parses' = Append(parses, parse_result(raw))
    /\ UNCHANGED <<raw, sessionVars>>

ParseNext == ParseReply

ParseSpec == ParseInit /\ [][ParseNext]_vars

----------------------------------------------------------------------------
(* What the claims about parse_result speak of.                            *)

\* the trimmed lines of a reply
TrimmedLines(reply) ==
    LET ls == Split(reply, "\n") IN [k \in 1..Len(ls) |-> Strip(ls[k])]

\* the positions of the STATUS-marked lines of a reply
StatusMarked(reply) ==
    LET ls == TrimmedLines(reply) IN {k \in DOMAIN ls : IsStatusLine(ls[k])}

\* the positions of the CONTENT-marked lines of a reply
ContentMarked(reply) ==
    LET ls == TrimmedLines(reply) IN {k \in DOMAIN ls : IsContentLine(ls[k])}

\* the first of NOT_MET, NOT_FOUND, MET that occurs in text, "ERROR" when none does
FirstKeyword(text) ==
    LET u == Upper(text)
    IN  IF Contains(u, "NOT_MET") THEN "NOT_MET"
        ELSE IF Contains(u, "NOT_FOUND") THEN "NOT_FOUND"
        ELSE IF Contains(u, "MET") THEN "MET"
        ELSE "ERROR"

\* C4: a reply with exactly one STATUS-marked line gets the status NOT_MET if that
\* line contains NOT_MET, otherwise NOT_FOUND if it contains NOT_FOUND, otherwise
\* MET if it contains MET, whatever the other lines say.
C4_StatusPrecedence ==
    \A n \in DOMAIN parses :
        Cardinality(StatusMarked(raw)) = 1 =>
            LET line == TrimmedLines(raw)[CHOOSE k \in StatusMarked(raw) : TRUE]
            IN  FirstKeyword(line) # "ERROR" => parses[n].status = FirstKeyword(line)

\* a reply whose one STATUS-marked line says NOT_FOUND while another line says
\* NOT_MET was parsed, and the marked line decided
C4_Witness ==
    /\ parses # <<>>
    /\ Cardinality(StatusMarked(raw)) = 1
    /\ FirstKeyword(TrimmedLines(raw)[CHOOSE k \in StatusMarked(raw) : TRUE]) = "NOT_FOUND"
    /\ FirstKeyword(raw) = "NOT_MET"
    /\ parses[1].status = "NOT_FOUND"

\* C5: a reply with exactly one CONTENT-marked line gets as content what follows
\* the first colon of that line, trimmed, whatever that text is.
C5_ContentExtraction ==
    \A n \in DOMAIN parses :
        Cardinality(ContentMarked(raw)) = 1 =>
            LET line == TrimmedLines(raw)[CHOOSE k \in ContentMarked(raw) : TRUE]
            IN  Contains(line, ":") =>
                    parses[n].content = Strip(SecondOfSplit(line, ":"))

\* C6: a reply without a CONTENT-marked line gets the whole trimmed reply as
\* content; and if it has no STATUS-marked line and none of NOT_MET, NOT_FOUND,
\* MET anywhere either, its status is ERROR.
C6_GracefulDegradation ==
    \A n \in DOMAIN parses :
        ContentMarked(raw) = {} =>
            /\ parses[n].content = Strip(raw)
            /\ (StatusMarked(raw) = {} /\ FirstKeyword(raw) = "ERROR")
                   => parses[n].status = "ERROR"

\* a reply with no marker and no keyword, padded with whitespace, was parsed
C6_Witness ==
    /\ parses # <<>>
    /\ ContentMarked(raw) = {} /\ StatusMarked(raw) = {}
    /\ FirstKeyword(raw) = "ERROR"
    /\ Strip(raw) # raw /\ Strip(raw) # ""
    /\ parses[1] = [status |-> "ERROR", content |-> Strip(raw)]

C8_FallbackGated ==
    \A n \in DOMAIN parses :
        IF StatusMarked(raw) # {}
        THEN parses[n].status # "ERROR" =>
                 \E k \in StatusMarked(raw) :
                     Contains(Upper(TrimmedLines(raw)[k]), parses[n].status)
        ELSE parses[n].status = FirstKeyword(raw)

----------------------------------------------------------------------------
(* Spec: the session.                                                      *)

Init ==
    /\ raw = ""
    /\ parses = <<>>
    /\ SessionIdle

Next ==
    \/ ClearRulesContext
    \/ ReviewText
    \/ InvokeWorkflow
    \/ AnalyzeEntry
    \/ InvokeBackend
    \/ BackendRespond
    \/ BackendFail
    \/ Finish
    \/ Display
    \/ ScriptEnds
    \/ Return

Spec == Init /\ [][Next]_vars

\* The script is one thread that runs each handler to its end: a step of a run
\* that can be taken is taken.  A backend call that was issued returns or raises.
FairSpec ==
    /\ Spec
    /\ WF_vars(AnalyzeEntry)
    /\ WF_vars(InvokeBackend)
    /\ WF_vars(BackendRespond \/ BackendFail)
    /\ WF_vars(Finish)

----------------------------------------------------------------------------
(* What the claims about the session and the workflow speak of.            *)

\* a list without repetitions
NoDuplicates(list) == \A j, k \in DOMAIN list : j # k => list[j] # list[k]

\* what the loop stores for a call that has ended
Stored(call) ==
    IF call.outcome = "returned" THEN call.reply ELSE "ERROR: " \o call.reply

\* the Verdict obtained for the k-th rule of the run (app.py 209-211)
VerdictOf(k) == parse_result(state.results["rule_" \o ToString(k)])

\* C1: in a run over at least three rules in which the backend call of exactly
\* one rule raised, that rule's Verdict has the status ERROR, and the Verdict of
\* every other rule is the one parsed from its own reply.
C1_FailureIsolation ==
    (pc = "done" /\ ~Falsy(api_key) /\ Len(state.rules) >= 3) =>
        \A k \in DOMAIN calls :
            (/\ calls[k].outcome = "raised"
             /\ \A j \in DOMAIN calls \ {k} : calls[j].outcome = "returned") =>
                /\ VerdictOf(k).status = "ERROR"
                /\ \A j \in DOMAIN calls \ {k} : VerdictOf(j) = parse_result(calls[j].reply)

\* C2: a run with a key ends with exactly one raw reply per rule, under the keys
\* rule_1 .. rule_n, the reply under rule_j being the outcome of the one backend
\* call made for the j-th rule.
C2_Alignment ==
    (pc = "done" /\ ~Falsy(api_key)) =>
        LET n == Len(state.rules)
        IN  /\ DOMAIN state.results = {"rule_" \o ToString(j) : j \in 1..n}
            /\ Len(calls) = n
            /\ \A j \in 1..n :
                   /\ calls[j].index = j - 1
                   /\ calls[j].rule = state.rules[j]
                   /\ calls[j].outcome \in {"returned", "raised"}
                   /\ state.results["rule_" \o ToString(j)] = Stored(calls[j])

\* a run over a list that repeats a rule has ended, one of the two calls for
\* that rule raised and the other returned
C2_Witness ==
    /\ pc = "done" /\ ~Falsy(api_key)
    /\ Len(state.rules) >= 2
    /\ state.rules[1] = state.rules[2]
    /\ calls[1].outcome = "raised" /\ calls[2].outcome = "returned"
    /\ state.results["rule_1"] = "ERROR: " \o calls[1].reply
    /\ state.results["rule_2"] = calls[2].reply

\* C3: a run without a key issues no backend call and ends with the one result
\* {"error": "API key not available"}, analysis_complete set, and no rule_j key.
C3_CredentialGating ==
    /\ calls # <<>> => ~Falsy(api_key)
    /\ (pc = "done" /\ Falsy(api_key)) =>
           /\ DOMAIN state.results = {"error"}
           /\ state.results["error"] = "API key not available"
           /\ state.analysis_complete
           /\ calls = <<>>

\* a run over two rules or more has ended without a key
C3_Witness ==
    /\ pc = "done" /\ Falsy(api_key)
    /\ Len(state.rules) >= 2
    /\ state.analysis_complete
    /\ DOMAIN state.results = {"error"}

\* the backend calls of a run so far: in rule order, one per rule, none issued
\* before the one before it ended
CallsInOrder ==
    pc \in {"loop", "calling", "done"} =>
        /\ Len(calls) <= Len(state.rules)
        /\ \A k \in DOMAIN calls :
               /\ calls[k].index = k - 1
               /\ calls[k].rule = state.rules[k]
               /\ (calls[k].outcome = "pending") <=> (k = Len(calls) /\ pc = "calling")
        /\ (pc = "done" /\ ~Falsy(api_key)) =>
               (Len(calls) = Len(state.rules) /\ state.analysis_complete)

\* C9: the backend calls of a run with a key are issued one at a time in rule
\* order, one per rule, whether or not earlier calls raised, and the run reaches
\* analysis_complete = true.
C9_SequentialCalls ==
    /\ []CallsInOrder
    /\ (pc = "loop") ~> (pc = "done" /\ state.analysis_complete)

\* a run over three rules or more has ended although its first call raised
C9_Witness ==
    /\ pc = "done"
    /\ Len(calls) >= 3
    /\ calls[1].outcome = "raised"
    /\ calls[Len(calls)].outcome = "returned"
    /\ state.analysis_complete

\* C10: the stored rule context never holds a rule twice, and neither does the
\* rule list that Review Text hands to the evaluation.
C10_DeduplicatedRules ==
    /\ NoDuplicates(rules_context)
    /\ (pc = "analyze" /\ caller = "ui") => NoDuplicates(state.rules)

====
